---- MODULE Spec2Model ----
(***************************************************************************)
(* Dispatch backend of src/server.js: the PostgreSQL build (lines 1-314)   *)
(* and, in the section on the SQLite build, the handlers of lines 316-579  *)
(* that share one connection.                                              *)
(*                                                                         *)
(* The store is PostgreSQL at its default isolation level READ COMMITTED:  *)
(* a statement sent with pool.query is its own transaction; statements     *)
(* sent on a client between BEGIN and COMMIT become visible to the other   *)
(* connections at COMMIT, all together, and an UPDATE holds a lock on the  *)
(* rows it matched until its transaction ends, so that a second writer of  *)
(* such a row waits.  Every `await` of a handler is one step: the store    *)
(* runs the statement and the handler continues to its next await.  A      *)
(* statement the store cannot run (connection lost, server error) rejects. *)
(***************************************************************************)
EXTENDS Integers, Sequences, FiniteSets, TLC

\* ------------------------------------------------------------------ bounds
MaxReq == 1          \* connections of callers (requests handled at a time)
MaxTickets == 2      \* rows ever inserted into tickets
MaxRescuers == 1     \* values ever drawn from rescuers_id_seq
MaxMessages == 3     \* rows ever inserted into messages
MaxClock == 2        \* ticks of the store's clock
SharedReq == 2       \* callers on the one connection of the SQLite build
SharedTickets == 1   \* rows ever inserted into tickets in the SQLite build
MaxRollbacks == 1    \* ROLLBACK statements handed to the connection and not run yet

\* ------------------------------------------------------------------ values
NULL == "NULL"       \* SQL NULL / JS null of a text, blob or real column
NULL_ID == 0         \* SQL NULL of tickets.rescuer_id (SERIAL ids start at 1)

TicketNumbers == {"SOS-001", "SOS-002"}
Badges == {"B-1", "B-2"}
Passwords == {"pw1", "pw2"}

\* bcrypt.hash(password, 10) and bcrypt.compare(password, hash)
bcrypt_hash(password) == <<"$2b$10$", password>>
\* A variant of the comparison that accepts every password.
bcrypt_compareAny(password, hash) == TRUE

bcrypt_compare(password, hash) == hash = bcrypt_hash(password)

VARIABLES
    tickets,          \* table tickets: sequence of rows, id = position
    rescuers,         \* table rescuers: id -> row, for the rows that exist
    rescuers_id_seq,  \* last value drawn from the SERIAL sequence of rescuers
    messages,         \* table messages: sequence of rows, id = position
    now,              \* CURRENT_TIMESTAMP of the store
    req,              \* per caller: the request being handled (the handler's
                      \* position and locals) or the last request with its answer
    db,               \* the connection `db` of the SQLite build (line 324)
    pool              \* the clients of `pool` (line 12) that are checked out

vars == <<tickets, rescuers, rescuers_id_seq, messages, now, req, db, pool>>

\* pool.connect() takes a client out of the pool, which holds at most max
\* clients (new Pool of line 12 names no max: the default of pg, 10), and
\* client.release() gives it back.
PoolMax == 10
connect(n) == n + 1
\* A variant of the release that keeps the client.
releaseNot(n) == n
release(n) == n - 1

\* The state of the one connection of the SQLite build: whether the process
\* that holds it runs, whether a transaction is open on it, the tables as they
\* were when that transaction began, and how many ROLLBACK statements have
\* been handed to the connection and not run yet.  The PostgreSQL build has
\* no such connection and leaves it as it is.
Closed == [up |-> TRUE, txn |-> FALSE, journal |-> <<>>, rollbacks |-> 0]

Idle == [op |-> "idle", pc |-> "idle"]

\* The caller q has no request in flight.
Free(q) == req[q].pc \in {"idle", "sent"}

\* ------------------------------------------------------------------ rows
\* INSERT INTO tickets (ticket_number, ...): rescuer columns NULL, status 'ACTIVE'
NewTicket(ticket_number) ==
    [ticket_number |-> ticket_number, rescuer_id |-> NULL_ID,
     rescuer_name |-> NULL, status |-> "ACTIVE"]

\* INSERT INTO rescuers (name, badge_id, callsign, phone, password, profile_image)
NewRescuer(name, badge_id, callsign, phone, hashedPassword, imageBuffer) ==
    [name |-> name, badge_id |-> badge_id, callsign |-> callsign, phone |-> phone,
     password |-> hashedPassword, profile_image |-> imageBuffer,
     status |-> "available", last_lat |-> NULL, last_lon |-> NULL]

TicketIds == 1..Len(tickets)
RescuerIds == DOMAIN rescuers

\* ------------------------------------------------------------------ store
\* Row locks: the rows an open transaction of another request has updated.
TicketLocked(q, id) ==
    \E p \in DOMAIN req \ {q} :
        req[p].op = "assign" /\ ~Free(p) /\ req[p].tlock = id
RescuerLocked(q, id) ==
    \E p \in DOMAIN req \ {q} :
        req[p].op = "assign" /\ ~Free(p) /\ req[p].rlock = id

\* ------------------------------------------------------------------ requests and answers
\* What the caller sent: the request without the handler's position and locals.
Call(r) ==
    CASE r.op = "assign" -> [op |-> r.op, ticketId |-> r.ticketId,
                             rescuerId |-> r.rescuerId, rescuerName |-> r.rescuerName]
      [] r.op = "location" -> [op |-> r.op, rescuerId |-> r.rescuerId,
                               lat |-> r.lat, lon |-> r.lon]
      [] r.op = "login" -> [op |-> r.op, badge_id |-> r.badge_id, password |-> r.password]
      [] OTHER -> r

\* The request r of caller q ends.  sent: a response went out, with this
\* status and body.  nth tells apart the exchanges that repeat the caller's
\* previous one: 1 for an exchange that differs from it in request or
\* answer, 2 or 3 (alternating) for one that is the same again.
Ended(q, r, sent, status, body) ==
    LET e == Call(r) @@ [pc |-> "sent", sent |-> sent, status |-> status,
                         body |-> body, nth |-> 1]
        same == req[q].pc = "sent" /\ [req[q] EXCEPT !.nth = 1] = e
    IN [e EXCEPT !.nth = IF ~same THEN 1 ELSE IF req[q].nth = 2 THEN 3 ELSE 2]

End(q, r, sent, status, body) ==
    req' = [req EXCEPT ![q] = Ended(q, r, sent, status, body)]

\* res.status(status).json(body) ends the handler of request r.
Reply(q, r, status, body) == End(q, r, TRUE, status, body)

\* A rejection leaves the async handler of request r: Express 4 does not
\* catch it, no response is sent.
Escape(q, r) == End(q, r, FALSE, 0, [unhandledRejection |-> TRUE])

Goto(q, pc) == req' = [req EXCEPT ![q].pc = pc]

\* ------------------------------------------------------------------ POST /api/ticket
\* lines 136-147
CreateTicket(q, ticket_number) ==
    /\ Free(q)
    /\ LET r == [op |-> "ticket", ticket_number |-> ticket_number]
       IN \/ /\ tickets' = Append(tickets, NewTicket(ticket_number))
             /\ Reply(q, r, 200, [message |-> "Ticket saved", id |-> Len(tickets) + 1])
          \/ /\ UNCHANGED tickets
             /\ Reply(q, r, 500, [error |-> "err.message"])
    /\ UNCHANGED <<rescuers, rescuers_id_seq, messages, now, db, pool>>

\* ------------------------------------------------------------------ POST /api/ticket/assign
\* A variant of the ticket update that leaves rescuer_name as it was.
updateTicketNoName(row, rescuerId, rescuerName) ==
    [row EXCEPT !.rescuer_id = rescuerId, !.status = "DISPATCHED"]

\* UPDATE tickets SET rescuer_id = $1, rescuer_name = $2, status = 'DISPATCHED'
updateTicket(row, rescuerId, rescuerName) ==
    [row EXCEPT !.rescuer_id = rescuerId, !.rescuer_name = rescuerName,
                !.status = "DISPATCHED"]

\* UPDATE rescuers SET status = 'on-mission'
updateRescuer(row) == [row EXCEPT !.status = "on-mission"]

\* The tables once the statements held by the transaction of r take effect.
TicketsWith(r) ==
    IF r.tlock = 0 THEN tickets
    ELSE [tickets EXCEPT ![r.tlock] = updateTicket(@, r.rescuerId, r.rescuerName)]
RescuersWith(r) ==
    IF r.rlock = 0 THEN rescuers
    ELSE [rescuers EXCEPT ![r.rlock] = updateRescuer(@)]

\* A variant without BEGIN: each statement that follows commits by itself.
BeginNoTxn(r) == [r EXCEPT !.pc = "updateTicket"]

\* client.query('BEGIN'): the statements that follow on this client are one
\* transaction.
Begin(r) == [r EXCEPT !.txn = TRUE, !.pc = "updateTicket"]

\* The awaited statement rejects inside the try of the assignment handler:
\* control passes to the catch block, which awaits ROLLBACK.
Catch(q) == req' = [req EXCEPT ![q].err = req[q].pc, ![q].pc = "ROLLBACK"]

\* lines 160-162: the request arrives and pool.connect() is awaited, outside
\* the try: its rejection leaves the handler.
AssignRescuer(q, ticketId, rescuerId, rescuerName) ==
    /\ Free(q)
    /\ LET r == [op |-> "assign", pc |-> "BEGIN", ticketId |-> ticketId,
                 rescuerId |-> rescuerId, rescuerName |-> rescuerName,
                 txn |-> FALSE, tlock |-> 0, rlock |-> 0, err |-> NULL]
       IN \/ /\ pool < PoolMax
             /\ pool' = connect(pool)
             /\ req' = [req EXCEPT ![q] = r]
          \/ /\ Escape(q, r)
             /\ UNCHANGED pool
    /\ UNCHANGED <<tickets, rescuers, rescuers_id_seq, messages, now, db>>

\* line 165
AssignBegin(q) ==
    /\ req[q].op = "assign" /\ req[q].pc = "BEGIN"
    /\ \/ req' = [req EXCEPT ![q] = Begin(@)]
       \/ Catch(q)
    /\ UNCHANGED <<tickets, rescuers, rescuers_id_seq, messages, now, db, pool>>

\* lines 166-167: the UPDATE waits for the row's lock; inside a transaction
\* its effect is held until COMMIT, outside it takes effect at once.
AssignUpdateTicket(q) ==
    /\ req[q].op = "assign" /\ req[q].pc = "updateTicket"
    /\ LET r == req[q]
           hit == IF r.ticketId \in TicketIds THEN r.ticketId ELSE 0
       IN \/ /\ ~TicketLocked(q, r.ticketId)
             /\ IF r.txn
                  THEN /\ req' = [req EXCEPT ![q].tlock = hit, ![q].pc = "updateRescuer"]
                       /\ UNCHANGED tickets
                  ELSE /\ Goto(q, "updateRescuer")
                       /\ tickets' = TicketsWith([r EXCEPT !.tlock = hit])
          \/ Catch(q) /\ UNCHANGED tickets
    /\ UNCHANGED <<rescuers, rescuers_id_seq, messages, now, db, pool>>

\* lines 169-170
AssignUpdateRescuer(q) ==
    /\ req[q].op = "assign" /\ req[q].pc = "updateRescuer"
    /\ LET r == req[q]
           hit == IF r.rescuerId \in RescuerIds THEN r.rescuerId ELSE 0
       IN \/ /\ ~RescuerLocked(q, r.rescuerId)
             /\ IF r.txn
                  THEN /\ req' = [req EXCEPT ![q].rlock = hit, ![q].pc = "COMMIT"]
                       /\ UNCHANGED rescuers
                  ELSE /\ Goto(q, "COMMIT")
                       /\ rescuers' = RescuersWith([r EXCEPT !.rlock = hit])
          \/ Catch(q) /\ UNCHANGED rescuers
    /\ UNCHANGED <<tickets, rescuers_id_seq, messages, now, db, pool>>

\* lines 172-173 and 178: COMMIT makes both updates visible together, then
\* the success response is sent and the client released.  A COMMIT that
\* rejects has committed nothing and ended the transaction.
AssignCommit(q) ==
    /\ req[q].op = "assign" /\ req[q].pc = "COMMIT"
    /\ \/ /\ tickets' = TicketsWith(req[q])
          /\ rescuers' = RescuersWith(req[q])
          /\ Reply(q, req[q], 200, [success |-> TRUE, message |-> "Unit dispatched!"])
          /\ pool' = release(pool)
       \/ /\ req' = [req EXCEPT ![q].txn = FALSE, ![q].tlock = 0, ![q].rlock = 0,
                                   ![q].err = "COMMIT", ![q].pc = "ROLLBACK"]
          /\ UNCHANGED <<tickets, rescuers, pool>>
    /\ UNCHANGED <<rescuers_id_seq, messages, now, db>>

\* lines 174-179: ROLLBACK drops what the transaction holds.  A ROLLBACK
\* that rejects (the connection is lost: the server ends the session and
\* with it the transaction) throws inside the catch block: the finally
\* releases the client and the rejection leaves the handler.
AssignRollback(q) ==
    /\ req[q].op = "assign" /\ req[q].pc = "ROLLBACK"
    /\ \/ Reply(q, req[q], 500, [error |-> "Update failed"])
       \/ Escape(q, req[q])
    /\ pool' = release(pool)
    /\ UNCHANGED <<tickets, rescuers, rescuers_id_seq, messages, now, db>>

\* ------------------------------------------------------------------ POST /api/ticket/solve/:id
\* Variants of the solve update: one that reopens a SOLVED ticket, one that
\* also takes the rescuer off the ticket, one that solves DISPATCHED
\* tickets only.
solveTicketReopen(row) ==
    [row EXCEPT !.status = IF @ = "SOLVED" THEN "ACTIVE" ELSE "SOLVED"]
solveTicketUnassign(row) ==
    [row EXCEPT !.status = "SOLVED", !.rescuer_id = NULL_ID, !.rescuer_name = NULL]
solveTicketOnlyDispatched(row) ==
    [row EXCEPT !.status = IF @ = "DISPATCHED" THEN "SOLVED" ELSE @]

\* UPDATE tickets SET status = 'SOLVED'
solveTicket(row) == [row EXCEPT !.status = "SOLVED"]

\* A variant of the solve handler that also frees the rescuer of the
\* ticket.
SolveTicketFreeing(q, id) ==
    /\ Free(q)
    /\ LET r == [op |-> "solve", id |-> id]
           freed == IF id \in TicketIds THEN tickets[id].rescuer_id ELSE NULL_ID
       IN \/ /\ ~TicketLocked(q, id)
             /\ tickets' = IF id \in TicketIds
                            THEN [tickets EXCEPT ![id] = solveTicket(@)]
                            ELSE tickets
             /\ rescuers' = [i \in RescuerIds |->
                               IF i = freed
                               THEN [rescuers[i] EXCEPT !.status = "available"]
                               ELSE rescuers[i]]
             /\ Reply(q, r, 200, [message |-> "Ticket marked as solved"])
          \/ /\ UNCHANGED <<tickets, rescuers>>
             /\ Reply(q, r, 500, [error |-> "err.message"])
    /\ UNCHANGED <<rescuers_id_seq, messages, now, db, pool>>

\* lines 183-190
SolveTicket(q, id) ==
    /\ Free(q)
    /\ LET r == [op |-> "solve", id |-> id]
       IN \/ /\ ~TicketLocked(q, id)
             /\ tickets' = IF id \in TicketIds
                            THEN [tickets EXCEPT ![id] = solveTicket(@)]
                            ELSE tickets
             /\ Reply(q, r, 200, [message |-> "Ticket marked as solved"])
          \/ /\ UNCHANGED tickets
             /\ Reply(q, r, 500, [error |-> "err.message"])
    /\ UNCHANGED <<rescuers, rescuers_id_seq, messages, now, db, pool>>

\* ------------------------------------------------------------------ GET /api/ticket/status/:ticket_number
\* A variant of the status query without its WHERE clause.
statusRowsAll(ticket_number) == TicketIds

\* SELECT status, rescuer_name FROM tickets WHERE ticket_number = $1: the ids
\* of the rows selected.  The statement has no ORDER BY, so any of them may
\* come first.
statusRows(ticket_number) ==
    {t \in TicketIds : tickets[t].ticket_number = ticket_number}

\* lines 193-204
TicketStatus(q, ticket_number) ==
    /\ Free(q)
    /\ LET r == [op |-> "status", ticket_number |-> ticket_number]
       IN \/ /\ statusRows(ticket_number) = {}
             /\ Reply(q, r, 404, [error |-> "Ticket not found"])
          \/ \E first \in statusRows(ticket_number) :
                Reply(q, r, 200, [status |-> tickets[first].status,
                                  rescuer_name |-> tickets[first].rescuer_name])
          \/ Reply(q, r, 500, [error |-> "err.message"])
    /\ UNCHANGED <<tickets, rescuers, rescuers_id_seq, messages, now, db, pool>>

\* ------------------------------------------------------------------ POST /api/rescuer/location
\* A variant of the mission query that does not look at the status.
missionResultAny(rescuerId) ==
    {t \in TicketIds : tickets[t].rescuer_id = rescuerId}

\* SELECT id FROM tickets WHERE rescuer_id = $1 AND status = 'DISPATCHED'
missionResult(rescuerId) ==
    {t \in TicketIds : tickets[t].rescuer_id = rescuerId
                        /\ tickets[t].status = "DISPATCHED"}

\* line 214
newStatus(rows) == IF rows # {} THEN "responding" ELSE "available"

\* A variant of the location update that does not take a rescuer off a
\* mission.
updateLocationKeepMission(row, lat, lon, status) ==
    [row EXCEPT !.last_lat = lat, !.last_lon = lon,
                !.status = IF @ = "on-mission" THEN @ ELSE status]

\* UPDATE rescuers SET last_lat = $1, last_lon = $2, status = $3
updateLocation(row, lat, lon, status) ==
    [row EXCEPT !.last_lat = lat, !.last_lon = lon, !.status = status]

\* lines 207-212: the request arrives and the mission lookup is awaited
ReportLocation(q, rescuerId, lat, lon) ==
    /\ Free(q)
    /\ LET r == [op |-> "location", pc |-> "UPDATE", rescuerId |-> rescuerId,
                 lat |-> lat, lon |-> lon,
                 missionResult |-> missionResult(rescuerId)]
       IN \/ req' = [req EXCEPT ![q] = r]
          \/ Reply(q, r, 500, [error |-> "err.message"])
    /\ UNCHANGED <<tickets, rescuers, rescuers_id_seq, messages, now, db, pool>>

\* lines 214-218
LocationUpdate(q) ==
    /\ req[q].op = "location" /\ req[q].pc = "UPDATE"
    /\ LET r == req[q]
       IN \/ /\ ~RescuerLocked(q, r.rescuerId)
             /\ rescuers' = [i \in RescuerIds |->
                               IF i = r.rescuerId
                               THEN updateLocation(rescuers[i], r.lat, r.lon,
                                                   newStatus(r.missionResult))
                               ELSE rescuers[i]]
             /\ Reply(q, r, 200, [success |-> TRUE,
                                  status |-> newStatus(r.missionResult)])
          \/ /\ UNCHANGED rescuers
             /\ Reply(q, r, 500, [error |-> "err.message"])
    /\ UNCHANGED <<tickets, rescuers_id_seq, messages, now, db, pool>>

\* ------------------------------------------------------------------ POST /api/rescuer/login
\* SELECT * FROM rescuers WHERE badge_id = $1 (badge_id is UNIQUE)
byBadge(badge_id) == {i \in RescuerIds : rescuers[i].badge_id = badge_id}

\* A variant of the login update that brings back off-duty rescuers only.
loginStatusIfOffDuty(row) ==
    [row EXCEPT !.status = IF @ = "off-duty" THEN "available" ELSE @]

\* UPDATE rescuers SET status = 'available'
loginStatus(row) == [row EXCEPT !.status = "available"]

\* lines 225-236 and 239-241: the request arrives, the row is read and the
\* password compared
Login(q, badge_id, password) ==
    /\ Free(q)
    /\ LET r == [op |-> "login", pc |-> "UPDATE", badge_id |-> badge_id,
                 password |-> password]
       IN \/ /\ byBadge(badge_id) = {}
             /\ Reply(q, r, 401, [error |-> "Auth Failed"])
          \/ \E i \in byBadge(badge_id) :
                IF bcrypt_compare(password, rescuers[i].password)
                THEN req' = [req EXCEPT ![q] = r @@ [rescuer |-> [id |-> i] @@ rescuers[i]]]
                ELSE Reply(q, r, 401, [error |-> "Auth Failed"])
          \/ Reply(q, r, 500, [error |-> "Server Error"])
    /\ UNCHANGED <<tickets, rescuers, rescuers_id_seq, messages, now, db, pool>>

\* lines 237-238: the status is written for the id read before, and the row
\* as it was read is the response
LoginUpdate(q) ==
    /\ req[q].op = "login" /\ req[q].pc = "UPDATE"
    /\ LET r == req[q]
       IN \/ /\ ~RescuerLocked(q, r.rescuer.id)
             /\ rescuers' = [i \in RescuerIds |->
                               IF i = r.rescuer.id THEN loginStatus(rescuers[i])
                               ELSE rescuers[i]]
             /\ Reply(q, r, 200, r.rescuer)
          \/ /\ UNCHANGED rescuers
             /\ Reply(q, r, 500, [error |-> "Server Error"])
    /\ UNCHANGED <<tickets, rescuers_id_seq, messages, now, db, pool>>

\* ------------------------------------------------------------------ POST /api/rescuer/logout
\* A variant of the logout update that leaves a rescuer on a mission as
\* it is.
logoutStatusIfAvailable(row) ==
    [row EXCEPT !.status = IF @ = "available" THEN "off-duty" ELSE @]

\* UPDATE rescuers SET status = 'off-duty'
logoutStatus(row) == [row EXCEPT !.status = "off-duty"]

\* lines 247-255
Logout(q, rescuerId) ==
    /\ Free(q)
    /\ LET r == [op |-> "logout", rescuerId |-> rescuerId]
       IN \/ /\ ~RescuerLocked(q, rescuerId)
             /\ rescuers' = [i \in RescuerIds |->
                               IF i = rescuerId THEN logoutStatus(rescuers[i])
                               ELSE rescuers[i]]
             /\ Reply(q, r, 200, [success |-> TRUE])
          \/ /\ UNCHANGED rescuers
             /\ Reply(q, r, 500, [error |-> "err.message"])
    /\ UNCHANGED <<tickets, rescuers_id_seq, messages, now, db, pool>>

\* ------------------------------------------------------------------ POST /api/rescuers
\* lines 83-98: a badge_id already stored violates UNIQUE; the sequence value
\* drawn for the row is not given back.
RegisterRescuer(q, name, badge_id, callsign, phone, password, imageBuffer) ==
    /\ Free(q)
    /\ LET r == [op |-> "register", name |-> name, badge_id |-> badge_id]
           id == rescuers_id_seq + 1
           hashedPassword == bcrypt_hash(password)
       IN \/ /\ byBadge(badge_id) = {}
             /\ rescuers' = (id :> NewRescuer(name, badge_id, callsign, phone,
                                               hashedPassword, imageBuffer)) @@ rescuers
             /\ rescuers_id_seq' = id
             /\ Reply(q, r, 200, [message |-> "Account created successfully", id |-> id])
          \/ /\ byBadge(badge_id) # {}
             /\ rescuers_id_seq' = id
             /\ UNCHANGED rescuers
             /\ Reply(q, r, 500, [error |-> "Badge ID exists or Database Error"])
          \/ /\ UNCHANGED <<rescuers, rescuers_id_seq>>
             /\ Reply(q, r, 500, [error |-> "Badge ID exists or Database Error"])
    /\ UNCHANGED <<tickets, messages, now, db, pool>>

\* ------------------------------------------------------------------ DELETE /api/rescuers/:id
\* A variant of the delete handler that takes the rescuer off its tickets.
DeleteRescuerCascade(q, id) ==
    /\ Free(q)
    /\ LET r == [op |-> "delete", id |-> id]
       IN \/ /\ ~RescuerLocked(q, id)
             /\ rescuers' = [i \in RescuerIds \ {id} |-> rescuers[i]]
             /\ tickets' = [t \in TicketIds |->
                              IF tickets[t].rescuer_id = id
                              THEN [tickets[t] EXCEPT !.rescuer_id = NULL_ID,
                                                      !.rescuer_name = NULL]
                              ELSE tickets[t]]
             /\ Reply(q, r, 200, [message |-> "Rescuer deleted successfully"])
          \/ /\ UNCHANGED <<tickets, rescuers>>
             /\ Reply(q, r, 500, [error |-> "err.message"])
    /\ UNCHANGED <<rescuers_id_seq, messages, now, db, pool>>

\* lines 258-265
DeleteRescuer(q, id) ==
    /\ Free(q)
    /\ LET r == [op |-> "delete", id |-> id]
       IN \/ /\ ~RescuerLocked(q, id)
             /\ rescuers' = [i \in RescuerIds \ {id} |-> rescuers[i]]
             /\ Reply(q, r, 200, [message |-> "Rescuer deleted successfully"])
          \/ /\ UNCHANGED rescuers
             /\ Reply(q, r, 500, [error |-> "err.message"])
    /\ UNCHANGED <<tickets, rescuers_id_seq, messages, now, db, pool>>

\* ------------------------------------------------------------------ GET /api/rescuers/image/:id
\* lines 121-133
GetImage(q, id) ==
    /\ Free(q)
    /\ LET r == [op |-> "image", id |-> id]
           found == IF id \in RescuerIds THEN rescuers[id].profile_image # NULL
                    ELSE FALSE
       IN \/ /\ ~found
             /\ Reply(q, r, 404, [text |-> "Image not found"])
          \/ /\ found
             /\ Reply(q, r, 200, [image |-> rescuers[id].profile_image])
          \/ Reply(q, r, 500, [text |-> "Error fetching image"])
    /\ UNCHANGED <<tickets, rescuers, rescuers_id_seq, messages, now, db, pool>>

\* ------------------------------------------------------------------ PUT /api/rescuers/:id
\* A variant of the profile update with profile_image in the SET list
\* always.
updateProfileImageAlways(row, name, badge_id, callsign, phone, imageBuffer) ==
    [row EXCEPT !.name = name, !.badge_id = badge_id, !.callsign = callsign,
                !.phone = phone, !.profile_image = imageBuffer]

\* A variant of the profile update that also brings the rescuer back on
\* duty.
updateProfileOnDuty(row, name, badge_id, callsign, phone, imageBuffer) ==
    [row EXCEPT !.name = name, !.badge_id = badge_id, !.callsign = callsign,
                !.phone = phone,
                !.profile_image = IF imageBuffer # NULL THEN imageBuffer ELSE @,
                !.status = IF @ = "off-duty" THEN "available" ELSE @]

\* lines 274-280: profile_image is in the SET list only when a file came
updateProfile(row, name, badge_id, callsign, phone, imageBuffer) ==
    IF imageBuffer # NULL
    THEN [row EXCEPT !.name = name, !.badge_id = badge_id, !.callsign = callsign,
                     !.phone = phone, !.profile_image = imageBuffer]
    ELSE [row EXCEPT !.name = name, !.badge_id = badge_id, !.callsign = callsign,
                     !.phone = phone]

\* lines 268-286: a badge_id stored for another row violates UNIQUE
UpdateRescuer(q, id, name, badge_id, callsign, phone, imageBuffer) ==
    /\ Free(q)
    /\ LET r == [op |-> "update", id |-> id, name |-> name, badge_id |-> badge_id,
                 callsign |-> callsign, phone |-> phone, imageBuffer |-> imageBuffer]
       IN \/ /\ ~RescuerLocked(q, id)
             /\ id \in RescuerIds => byBadge(badge_id) \subseteq {id}
             /\ rescuers' = [i \in RescuerIds |->
                               IF i = id
                               THEN updateProfile(rescuers[i], name, badge_id, callsign,
                                                  phone, imageBuffer)
                               ELSE rescuers[i]]
             /\ Reply(q, r, 200, [message |-> "Updated successfully"])
          \/ /\ UNCHANGED rescuers
             /\ Reply(q, r, 500, [error |-> "Update failed"])
    /\ UNCHANGED <<tickets, rescuers_id_seq, messages, now, db, pool>>

\* ------------------------------------------------------------------ chat
\* INSERT INTO messages (ticket_number, sender, message): timestamp DEFAULT
\* CURRENT_TIMESTAMP (line 70)
NewMessage(ticket_number, sender, message) ==
    [ticket_number |-> ticket_number, sender |-> sender, message |-> message,
     timestamp |-> now]

\* lines 289-298
SendMessage(q, ticket_number, sender, message) ==
    /\ Free(q)
    /\ LET r == [op |-> "send", ticket_number |-> ticket_number, message |-> message]
       IN \/ /\ messages' = Append(messages, NewMessage(ticket_number, sender, message))
             /\ Reply(q, r, 200, [success |-> TRUE, id |-> Len(messages) + 1])
          \/ /\ UNCHANGED messages
             /\ Reply(q, r, 500, [error |-> "err.message"])
    /\ UNCHANGED <<tickets, rescuers, rescuers_id_seq, now, db, pool>>

\* SELECT * FROM messages WHERE ticket_number = $1
chatRows(ticket_number) ==
    {m \in 1..Len(messages) : messages[m].ticket_number = ticket_number}

\* ORDER BY timestamp ASC: the orders of the ids a sort on timestamp alone
\* may produce; rows of equal timestamp come in any order.
orderByTimestamp(ids) ==
    {s \in [1..Cardinality(ids) -> ids] :
        /\ \A i, j \in DOMAIN s : i # j => s[i] # s[j]
        /\ \A i, j \in DOMAIN s :
              i < j => messages[s[i]].timestamp <= messages[s[j]].timestamp}

\* lines 301-309
GetMessages(q, ticket_number) ==
    /\ Free(q)
    /\ LET r == [op |-> "chat", ticket_number |-> ticket_number]
       IN \/ \E ids \in orderByTimestamp(chatRows(ticket_number)) :
                Reply(q, r, 200,
                      [rows |-> [i \in DOMAIN ids |-> [id |-> ids[i]] @@ messages[ids[i]]]])
          \/ Reply(q, r, 500, [error |-> "err.message"])
    /\ UNCHANGED <<tickets, rescuers, rescuers_id_seq, messages, now, db, pool>>

\* Time passes at the store.
Tick ==
    /\ now' = now + 1
    /\ UNCHANGED <<tickets, rescuers, rescuers_id_seq, messages, req, db, pool>>

\* ------------------------------------------------------------------ SQLite build (lines 316-579)
\* Every handler of this build sends its statements to the one connection
\* `db` of line 324.  The connection runs one transaction at a time: BEGIN
\* opens it, every statement that runs until COMMIT or ROLLBACK belongs to it
\* whichever request sent it, and a read sees what the open transaction has
\* written.  Inside db.serialize (line 460) BEGIN and the ticket update are
\* queued one behind the other; the statements sent from the callbacks (the
\* rescuer update, COMMIT, ROLLBACK) are queued when their callback runs.
\* The in-flight assignment keeps, for each of its two updates, what became
\* of it: "todo", "pending" (applied in the open transaction), "durable"
\* (committed, or applied with no transaction open) or "undone" (rolled back).

\* The tables return to what they were when the open transaction began.
RolledBack ==
    /\ tickets' = db.journal[1]
    /\ rescuers' = db.journal[2]
    /\ rescuers_id_seq' = db.journal[3]

\* The open transaction ends: `to` is what its pending updates become.
Settled(r, to) ==
    IF r.op = "assign" /\ r.pc \notin {"idle", "sent"}
    THEN [r EXCEPT !.ut = IF @ = "pending" THEN to ELSE @,
                   !.ur = IF @ = "pending" THEN to ELSE @]
    ELSE r

\* The request of caller q becomes rec; to # "pending" ends the transaction
\* for the updates of every request in flight.
ReqAfter(q, rec, to) ==
    [p \in DOMAIN req |-> IF p = q THEN rec ELSE Settled(req[p], to)]

\* Statements of other requests wait while the ticket update of a request is
\* queued right behind its BEGIN (db.serialize, lines 460-463).
Turn(q) ==
    \A p \in DOMAIN req \ {q} : ~(req[p].op = "assign" /\ req[p].pc = "updateTicket")

\* db.run without a callback fails (lines 461, 465, 471): the statement emits
\* 'error', nothing listens, the exception ends the process.  The requests in
\* flight get no answer and the store rolls the open transaction back when
\* the database is next opened.
Uncaught ==
    /\ IF db.txn THEN RolledBack ELSE UNCHANGED <<tickets, rescuers, rescuers_id_seq>>
    /\ db' = [Closed EXCEPT !.up = FALSE]
    /\ req' = [p \in DOMAIN req |->
                 IF Free(p) THEN req[p]
                 ELSE Ended(p, req[p], FALSE, 0, [uncaughtException |-> TRUE])]

\* A statement with a callback fails and the callback, which hands k ROLLBACK
\* statements to the connection, answers with rec: the store either keeps the
\* open transaction or, for the errors after which it cannot go on (disk
\* full, I/O error, out of memory), rolls it back by itself.
StatementFails(q, rec, k) ==
    /\ db.rollbacks + k <= MaxRollbacks
    /\ \/ /\ UNCHANGED <<tickets, rescuers, rescuers_id_seq>>
          /\ db' = [db EXCEPT !.rollbacks = @ + k]
          /\ req' = ReqAfter(q, rec, "pending")
       \/ /\ db.txn
          /\ RolledBack
          /\ db' = [db EXCEPT !.txn = FALSE, !.journal = <<>>, !.rollbacks = @ + k]
          /\ req' = ReqAfter(q, rec, "undone")

\* lines 437-446
SqliteCreateTicket(q, ticket_number) ==
    /\ db.up /\ Free(q) /\ Turn(q)
    /\ LET r == [op |-> "ticket", ticket_number |-> ticket_number]
       IN \/ /\ tickets' = Append(tickets, NewTicket(ticket_number))
             /\ Reply(q, r, 200, [message |-> "Ticket saved", id |-> Len(tickets) + 1])
             /\ UNCHANGED <<rescuers, rescuers_id_seq, db>>
          \/ StatementFails(q, Ended(q, r, TRUE, 500, [error |-> "err.message"]), 0)
    /\ UNCHANGED <<messages, now, pool>>

\* lines 384-403: the UNIQUE badge_id refuses a second row; the AUTOINCREMENT
\* id of a refused row is not consumed.
SqliteRegisterRescuer(q, name, badge_id, callsign, phone, password, imageBuffer) ==
    /\ db.up /\ Free(q) /\ Turn(q)
    /\ LET r == [op |-> "register", badge_id |-> badge_id, password |-> password]
           id == rescuers_id_seq + 1
           row == NewRescuer(name, badge_id, callsign, phone,
                             bcrypt_hash(password), imageBuffer)
       IN \/ /\ \A i \in RescuerIds : rescuers[i].badge_id # badge_id
             /\ rescuers' = (id :> row) @@ rescuers
             /\ rescuers_id_seq' = id
             /\ Reply(q, r, 200, [message |-> "Account created successfully", id |-> id])
             /\ UNCHANGED <<tickets, db>>
          \/ StatementFails(q, Ended(q, r, TRUE, 500,
                                     [error |-> "Badge ID exists or Database Error"]), 0)
    /\ UNCHANGED <<messages, now, pool>>

\* lines 493-506: db.get answers with the first row of that number.
SqliteTicketStatus(q, ticket_number) ==
    /\ db.up /\ Free(q) /\ Turn(q)
    /\ LET r == [op |-> "status", ticket_number |-> ticket_number]
           ids == {i \in TicketIds : tickets[i].ticket_number = ticket_number}
       IN \/ /\ ids = {}
             /\ Reply(q, r, 404, [error |-> "Ticket not found"])
             /\ UNCHANGED <<tickets, rescuers, rescuers_id_seq, db>>
          \/ /\ ids # {}
             /\ LET i == CHOOSE i \in ids : \A j \in ids : i <= j
                IN Reply(q, r, 200, [status |-> tickets[i].status,
                                     rescuer_name |-> tickets[i].rescuer_name])
             /\ UNCHANGED <<tickets, rescuers, rescuers_id_seq, db>>
          \/ StatementFails(q, Ended(q, r, TRUE, 500, [error |-> "err.message"]), 0)
    /\ UNCHANGED <<messages, now, pool>>

\* lines 457-463: the request arrives; BEGIN and the ticket update are handed
\* to the connection.
SqliteAssign(q, ticketId, rescuerId, rescuerName) ==
    /\ db.up /\ Free(q)
    /\ req' = [req EXCEPT ![q] =
                 [op |-> "assign", pc |-> "BEGIN", ticketId |-> ticketId,
                  rescuerId |-> rescuerId, rescuerName |-> rescuerName,
                  ut |-> "todo", ur |-> "todo"]]
    /\ UNCHANGED <<tickets, rescuers, rescuers_id_seq, messages, now, db, pool>>

\* line 461: BEGIN TRANSACTION, sent without a callback.  It fails when a
\* transaction is open on the connection already, or when the store fails.
SqliteBegin(q) ==
    /\ db.up /\ req[q].op = "assign" /\ req[q].pc = "BEGIN" /\ Turn(q)
    /\ \/ /\ ~db.txn
          /\ db' = [db EXCEPT !.txn = TRUE,
                              !.journal = <<tickets, rescuers, rescuers_id_seq>>]
          /\ Goto(q, "updateTicket")
          /\ UNCHANGED <<tickets, rescuers, rescuers_id_seq>>
       \/ Uncaught
    /\ UNCHANGED <<messages, now, pool>>

\* lines 462-467
SqliteUpdateTicket(q) ==
    /\ db.up /\ req[q].op = "assign" /\ req[q].pc = "updateTicket"
    /\ LET r == req[q]
       IN \/ /\ tickets' = [i \in TicketIds |->
                              IF i = r.ticketId
                              THEN updateTicket(tickets[i], r.rescuerId, r.rescuerName)
                              ELSE tickets[i]]
             /\ req' = [req EXCEPT ![q].pc = "updateRescuer",
                                   ![q].ut = IF db.txn THEN "pending" ELSE "durable"]
             /\ UNCHANGED <<rescuers, rescuers_id_seq, db>>
          \/ StatementFails(q, Ended(q, r, TRUE, 500, [error |-> "Update failed"]), 1)
    /\ UNCHANGED <<messages, now, pool>>

\* lines 468-473
SqliteUpdateRescuer(q) ==
    /\ db.up /\ req[q].op = "assign" /\ req[q].pc = "updateRescuer" /\ Turn(q)
    /\ LET r == req[q]
       IN \/ /\ rescuers' = [i \in RescuerIds |->
                               IF i = r.rescuerId THEN updateRescuer(rescuers[i])
                               ELSE rescuers[i]]
             /\ req' = [req EXCEPT ![q].pc = "COMMIT",
                                   ![q].ur = IF db.txn THEN "pending" ELSE "durable"]
             /\ UNCHANGED <<tickets, rescuers_id_seq, db>>
          \/ StatementFails(q, Ended(q, r, TRUE, 500, [error |-> "Status update failed"]), 1)
    /\ UNCHANGED <<messages, now, pool>>

\* lines 474-477: COMMIT ends the transaction that is open on the connection;
\* it fails when none is open or when the store fails, and the callback then
\* answers without a ROLLBACK.
SqliteCommit(q) ==
    /\ db.up /\ req[q].op = "assign" /\ req[q].pc = "COMMIT" /\ Turn(q)
    /\ LET r == req[q]
       IN \/ /\ db.txn
             /\ db' = [db EXCEPT !.txn = FALSE, !.journal = <<>>]
             /\ req' = ReqAfter(q, Ended(q, r, TRUE, 200,
                                         [success |-> TRUE, message |-> "Unit dispatched!"]),
                                "durable")
             /\ UNCHANGED <<tickets, rescuers, rescuers_id_seq>>
          \/ StatementFails(q, Ended(q, r, TRUE, 500, [error |-> "Commit error"]), 0)
    /\ UNCHANGED <<messages, now, pool>>

\* lines 465 and 471: a ROLLBACK handed over by a callback runs.  It was sent
\* without a callback; it fails when no transaction is open any more, or when
\* the store fails.
SqliteRollback ==
    /\ db.up /\ db.rollbacks > 0
    /\ \A p \in DOMAIN req : ~(req[p].op = "assign" /\ req[p].pc = "updateTicket")
    /\ \/ /\ db.txn
          /\ RolledBack
          /\ db' = [db EXCEPT !.txn = FALSE, !.journal = <<>>, !.rollbacks = @ - 1]
          /\ req' = [p \in DOMAIN req |-> Settled(req[p], "undone")]
       \/ Uncaught
    /\ UNCHANGED <<messages, now, pool>>

\* ------------------------------------------------------------------ specifications
\* After initDb (lines 27-78) on an empty database: the three tables exist
\* and are empty, and no request has arrived.
Init ==
    /\ tickets = <<>>
    /\ rescuers = <<>>
    /\ rescuers_id_seq = 0
    /\ messages = <<>>
    /\ now = 0
    /\ req = [q \in 1..MaxReq |-> Idle]
    /\ db = Closed
    /\ pool = 0

\* The ids and values the callers send.  The ids reach one past the rows
\* that can exist, so that some requests name a row that is not there.
TicketArgs == 1..MaxTickets
RescuerArgs == 1..(MaxRescuers + 1)
Assignments == {<<i, IF i = 1 THEN "Alex" ELSE "Bea">> : i \in RescuerArgs}
Positions == {<<"10.24", "123.79">>}

\* The dispatch workflow, one request handled at a time: tickets, rescuers
\* and their status.
Next ==
    \/ \E q \in DOMAIN req : Len(tickets) < MaxTickets /\ CreateTicket(q, "SOS-001")
    \/ \E q \in DOMAIN req, t \in TicketArgs, c \in Assignments :
          AssignRescuer(q, t, c[1], c[2])
    \/ \E q \in DOMAIN req : AssignBegin(q)
    \/ \E q \in DOMAIN req : AssignUpdateTicket(q)
    \/ \E q \in DOMAIN req : AssignUpdateRescuer(q)
    \/ \E q \in DOMAIN req : AssignCommit(q)
    \/ \E q \in DOMAIN req : AssignRollback(q)
    \/ \E q \in DOMAIN req, t \in TicketArgs : SolveTicket(q, t)
    \/ \E q \in DOMAIN req, i \in RescuerArgs, p \in Positions :
          ReportLocation(q, i, p[1], p[2])
    \/ \E q \in DOMAIN req : LocationUpdate(q)
    \/ \E q \in DOMAIN req, b \in Badges, p \in Passwords : Login(q, b, p)
    \/ \E q \in DOMAIN req : LoginUpdate(q)
    \/ \E q \in DOMAIN req, i \in RescuerArgs : Logout(q, i)
    \/ \E q \in DOMAIN req, b \in Badges :
          /\ rescuers_id_seq < MaxRescuers
          /\ RegisterRescuer(q, "Alex", b, "R-1", "0917", "pw1", NULL)
    \/ \E q \in DOMAIN req, i \in RescuerArgs : DeleteRescuer(q, i)
    \/ \E q \in DOMAIN req, i \in RescuerArgs, b \in Badges :
          UpdateRescuer(q, i, "Alex", b, "R-1", "0917", NULL)

Spec == Init /\ [][Next]_vars

\* Requests handled concurrently: RaceReq callers, one ticket, one rescuer.
RaceReq == 2
RaceTickets == 1

InitRace ==
    /\ tickets = <<>>
    /\ rescuers = <<>>
    /\ rescuers_id_seq = 0
    /\ messages = <<>>
    /\ now = 0
    /\ req = [q \in 1..RaceReq |-> Idle]
    /\ db = Closed
    /\ pool = 0

NextRace ==
    \/ \E q \in DOMAIN req : Len(tickets) < RaceTickets /\ CreateTicket(q, "SOS-001")
    \/ \E q \in DOMAIN req, t \in 1..RaceTickets, c \in Assignments :
          AssignRescuer(q, t, c[1], c[2])
    \/ \E q \in DOMAIN req : AssignBegin(q)
    \/ \E q \in DOMAIN req : AssignUpdateTicket(q)
    \/ \E q \in DOMAIN req : AssignUpdateRescuer(q)
    \/ \E q \in DOMAIN req : AssignCommit(q)
    \/ \E q \in DOMAIN req : AssignRollback(q)
    \/ \E q \in DOMAIN req, t \in 1..RaceTickets : SolveTicket(q, t)
    \/ \E q \in DOMAIN req : TicketStatus(q, "SOS-001")
    \/ \E q \in DOMAIN req, i \in RescuerArgs, p \in Positions :
          ReportLocation(q, i, p[1], p[2])
    \/ \E q \in DOMAIN req : LocationUpdate(q)
    \/ \E q \in DOMAIN req :
          /\ rescuers_id_seq < MaxRescuers
          /\ RegisterRescuer(q, "Alex", "B-1", "R-1", "0917", "pw1", NULL)

SpecRace == InitRace /\ [][NextRace]_vars

\* Status polling, with ticket numbers that may repeat.
NextStatus ==
    \/ \E q \in DOMAIN req, n \in TicketNumbers :
          Len(tickets) < MaxTickets /\ CreateTicket(q, n)
    \/ \E q \in DOMAIN req, t \in TicketArgs, c \in Assignments :
          AssignRescuer(q, t, c[1], c[2])
    \/ \E q \in DOMAIN req : AssignBegin(q)
    \/ \E q \in DOMAIN req : AssignUpdateTicket(q)
    \/ \E q \in DOMAIN req : AssignUpdateRescuer(q)
    \/ \E q \in DOMAIN req : AssignCommit(q)
    \/ \E q \in DOMAIN req : AssignRollback(q)
    \/ \E q \in DOMAIN req, t \in TicketArgs : SolveTicket(q, t)
    \/ \E q \in DOMAIN req, n \in TicketNumbers : TicketStatus(q, n)

SpecStatus == Init /\ [][NextStatus]_vars

\* The chat of the tickets.
Senders == {"user", "rescuer"}

NextChat ==
    \/ \E q \in DOMAIN req, n \in TicketNumbers, s \in Senders :
          Len(messages) < MaxMessages /\ SendMessage(q, n, s, "help")
    \/ \E q \in DOMAIN req, n \in TicketNumbers : GetMessages(q, n)
    \/ now < MaxClock /\ Tick

SpecChat == Init /\ [][NextChat]_vars

\* Rescuer profiles: registration and update with and without an image,
\* while status and location change.
Names == {"Alex", "Bea"}
Phones == {"0917", "0918"}

NextProfile ==
    \/ \E q \in DOMAIN req, img \in {NULL, "img1"} :
          /\ rescuers_id_seq < MaxRescuers
          /\ RegisterRescuer(q, "Alex", "B-1", "R-1", "0917", "pw1", img)
    \/ \E q \in DOMAIN req, i \in RescuerArgs, n \in Names, p \in Phones,
          img \in {NULL, "img2"} :
          UpdateRescuer(q, i, n, "B-1", "R-1", p, img)
    \/ \E q \in DOMAIN req, i \in RescuerArgs : GetImage(q, i)
    \/ \E q \in DOMAIN req, i \in RescuerArgs : Logout(q, i)
    \/ \E q \in DOMAIN req, i \in RescuerArgs, p \in Positions :
          ReportLocation(q, i, p[1], p[2])
    \/ \E q \in DOMAIN req : LocationUpdate(q)

SpecProfile == Init /\ [][NextProfile]_vars

\* The SQLite build with two callers on its one connection.
InitShared ==
    /\ tickets = <<>>
    /\ rescuers = <<>>
    /\ rescuers_id_seq = 0
    /\ messages = <<>>
    /\ now = 0
    /\ req = [q \in 1..SharedReq |-> Idle]
    /\ db = Closed
    /\ pool = 0

NextShared ==
    \/ \E q \in DOMAIN req :
          Len(tickets) < SharedTickets /\ SqliteCreateTicket(q, "SOS-001")
    \/ \E q \in DOMAIN req :
          /\ rescuers_id_seq < MaxRescuers
          /\ SqliteRegisterRescuer(q, "Alex", "B-1", "R-1", "0917", "pw1", NULL)
    \/ \E q \in DOMAIN req : SqliteTicketStatus(q, "SOS-001")
    \/ \E q \in DOMAIN req, t \in 1..SharedTickets, c \in Assignments :
          SqliteAssign(q, t, c[1], c[2])
    \/ \E q \in DOMAIN req : SqliteBegin(q)
    \/ \E q \in DOMAIN req : SqliteUpdateTicket(q)
    \/ \E q \in DOMAIN req : SqliteUpdateRescuer(q)
    \/ \E q \in DOMAIN req : SqliteCommit(q)
    \/ SqliteRollback

SpecShared == InitShared /\ [][NextShared]_vars

\* ------------------------------------------------------------------ steps and changes
\* The request of caller q ends in this step (every exchange differs from
\* the caller's previous one, at least in nth).
Answers(q) == req'[q] # req[q] /\ req'[q].pc = "sent"

\* This step is a step of the handler of `op` that has awaited before.
StepOf(q, op) == req[q].op = op /\ ~Free(q) /\ req'[q] # req[q]

\* This step is the whole of a single-statement request `op` of caller q.
Serves(q, op) == Free(q) /\ Answers(q) /\ req'[q].op = op

\* This step is the COMMIT of the assignment of caller q, answered with success.
Commits(q) == StepOf(q, "assign") /\ Answers(q) /\ req'[q].sent /\ req'[q].status = 200

\* No other caller has made a request: nothing interleaves with caller q.
Alone(q) == \A p \in DOMAIN req \ {q} : req[p] = Idle

\* The rows this step inserts, changes or deletes.
ChangedTickets ==
    {t \in 1..Len(tickets') : t \notin TicketIds \/ tickets'[t] # tickets[t]}
ChangedRescuers ==
    {i \in DOMAIN rescuers \cup DOMAIN rescuers' :
        \/ i \notin DOMAIN rescuers
        \/ i \notin DOMAIN rescuers'
        \/ rescuers'[i] # rescuers[i]}
ChangedMessages ==
    {m \in 1..Len(messages') : m > Len(messages) \/ messages'[m] # messages[m]}

\* ------------------------------------------------------------------ C1
\* C1: an AssignRescuer that met a store error at the ticket update, the
\* rescuer update or the commit changes neither table in any of its steps,
\* and ends with an error response to the caller.
C1_AssignAllOrNothing ==
    [][\A q \in DOMAIN req :
          /\ (StepOf(q, "assign") /\ ~Commits(q))
                => (tickets' = tickets /\ rescuers' = rescuers)
          /\ (StepOf(q, "assign") /\ Answers(q)
                /\ req[q].err \in {"updateTicket", "updateRescuer", "COMMIT"})
                => (req'[q].sent /\ req'[q].status = 500)]_vars

\* ------------------------------------------------------------------ C2
\* C2: when AssignRescuer answers success, the step that commits leaves the
\* ticket (if it was there when updated) DISPATCHED with the rescuer_id and
\* rescuer_name sent, and the rescuer (likewise) on-mission, whatever they
\* were before.
C2_AssignSuccess ==
    [][\A q \in DOMAIN req :
          Commits(q) =>
            LET r == req[q] IN
            /\ (r.ticketId \in TicketIds /\ r.tlock = r.ticketId) =>
                  /\ tickets'[r.ticketId].status = "DISPATCHED"
                  /\ tickets'[r.ticketId].rescuer_id = r.rescuerId
                  /\ tickets'[r.ticketId].rescuer_name = r.rescuerName
            /\ (r.rescuerId \in RescuerIds /\ r.rlock = r.rescuerId) =>
                  rescuers'[r.rescuerId].status = "on-mission"]_vars

\* A success response for a ticket and a rescuer that exist, both updated.
C2_Witness ==
    \E q \in DOMAIN req :
        /\ req[q].op = "assign" /\ req[q].pc = "sent" /\ req[q].status = 200
        /\ req[q].ticketId \in TicketIds /\ req[q].rescuerId \in RescuerIds
        /\ tickets[req[q].ticketId].status = "DISPATCHED"
        /\ tickets[req[q].ticketId].rescuer_id = req[q].rescuerId
        /\ tickets[req[q].ticketId].rescuer_name = req[q].rescuerName
        /\ rescuers[req[q].rescuerId].status = "on-mission"

\* ------------------------------------------------------------------ C3
\* C3: what the other requests can read changes in no step of an
\* AssignRescuer but its COMMIT, and there the ticket row and the rescuer
\* row it updated change in the same step: no request reads one without
\* the other.
C3_NoPartialAssignment ==
    [][\A q \in DOMAIN req :
          StepOf(q, "assign") =>
            \/ tickets' = tickets /\ rescuers' = rescuers
            \/ /\ Commits(q)
               /\ \A t \in TicketIds :
                     IF t = req[q].tlock
                     THEN /\ tickets'[t].status = "DISPATCHED"
                          /\ tickets'[t].rescuer_id = req[q].rescuerId
                     ELSE tickets'[t] = tickets[t]
               /\ \A i \in RescuerIds :
                     IF i = req[q].rlock
                     THEN rescuers'[i].status = "on-mission"
                     ELSE rescuers'[i] = rescuers[i]]_vars

\* An assignment holds both updates, not yet committed, while another
\* caller has looked the rescuer's missions up and found none: the tables
\* still show the ticket and the rescuer as they were.
C3_Witness ==
    \E q, p \in DOMAIN req :
        /\ req[q].op = "assign" /\ req[q].pc = "COMMIT"
        /\ req[q].tlock # 0 /\ req[q].rlock # 0
        /\ req[p].op = "location" /\ req[p].pc = "UPDATE"
        /\ req[p].rescuerId = req[q].rescuerId /\ req[p].missionResult = {}
        /\ tickets[req[q].tlock].status = "ACTIVE"
        /\ rescuers[req[q].rlock].status = "available"

\* ------------------------------------------------------------------ C4
\* C4 as claimed: a ticket whose status is SOLVED keeps it in every step.
C4_SolvedIsTerminal ==
    [][\A t \in TicketIds :
          tickets[t].status = "SOLVED" => tickets'[t].status = "SOLVED"]_vars

\* C4 amended: a ticket's status leaves SOLVED only in the COMMIT of a
\* successful AssignRescuer that names the ticket, which makes it
\* DISPATCHED; no other operation changes the status of a SOLVED ticket.
C4_SolvedLeftOnlyByAssign ==
    [][\A t \in TicketIds :
          (tickets[t].status = "SOLVED" /\ tickets'[t].status # "SOLVED") =>
            /\ tickets'[t].status = "DISPATCHED"
            /\ \E q \in DOMAIN req : Commits(q) /\ req[q].ticketId = t]_vars

\* A ticket is SOLVED after ReportLocation was answered for the rescuer it
\* names.
C4_Witness ==
    \E q \in DOMAIN req, t \in TicketIds :
        /\ req[q].op = "location" /\ req[q].pc = "sent" /\ req[q].status = 200
        /\ tickets[t].status = "SOLVED"
        /\ tickets[t].rescuer_id = req[q].rescuerId

\* ------------------------------------------------------------------ C5
\* C5: when nothing interleaves, a ReportLocation answered with success
\* leaves the rescuer (if there is one with that id) with the latitude and
\* longitude sent and with status responding if some ticket names the
\* rescuer and is DISPATCHED, available otherwise, whatever the status was
\* before; the response carries that status, and the tickets are as before.
C5_LocationDerivesStatus ==
    [][\A q \in DOMAIN req :
          (StepOf(q, "location") /\ Answers(q) /\ req'[q].status = 200 /\ Alone(q)) =>
            LET id == req[q].rescuerId
                derived == IF \E t \in TicketIds : /\ tickets[t].rescuer_id = id
                                                   /\ tickets[t].status = "DISPATCHED"
                           THEN "responding" ELSE "available"
            IN /\ req'[q].body.status = derived
               /\ tickets' = tickets
               /\ id \in RescuerIds =>
                     /\ rescuers'[id].status = derived
                     /\ rescuers'[id].last_lat = req[q].lat
                     /\ rescuers'[id].last_lon = req[q].lon]_vars

\* A rescuer on a DISPATCHED ticket reported a position and is responding.
C5_Witness ==
    \E q \in DOMAIN req, t \in TicketIds :
        /\ req[q].op = "location" /\ req[q].pc = "sent" /\ req[q].status = 200
        /\ req[q].body.status = "responding"
        /\ req[q].rescuerId \in RescuerIds
        /\ tickets[t].rescuer_id = req[q].rescuerId /\ tickets[t].status = "DISPATCHED"
        /\ rescuers[req[q].rescuerId].status = "responding"
        /\ rescuers[req[q].rescuerId].last_lat = req[q].lat

\* ------------------------------------------------------------------ C6
\* This step gives ticket t the three values of the assignment of caller q.
Assigns(q, t) ==
    /\ Commits(q) /\ req[q].ticketId = t
    /\ tickets'[t].rescuer_id = req[q].rescuerId
    /\ tickets'[t].rescuer_name = req[q].rescuerName
    /\ tickets'[t].status = "DISPATCHED"

\* No step but the COMMIT of an assignment changes more than one row.
OneEntity ==
    (\A q \in DOMAIN req : ~Commits(q)) =>
        Cardinality(ChangedTickets) + Cardinality(ChangedRescuers)
            + Cardinality(ChangedMessages) <= 1

\* C6 as claimed: rescuer_id, rescuer_name and status of a ticket change
\* only in an AssignRescuer, which sets the three together, and every other
\* operation changes at most one entity.
C6_OnlyAssignChangesTicket ==
    [][/\ \A t \in TicketIds :
            (\/ tickets'[t].rescuer_id # tickets[t].rescuer_id
             \/ tickets'[t].rescuer_name # tickets[t].rescuer_name
             \/ tickets'[t].status # tickets[t].status)
                => \E q \in DOMAIN req : Assigns(q, t)
       /\ OneEntity]_vars

\* C6 amended: rescuer_id and rescuer_name of a ticket change only in the
\* COMMIT of an AssignRescuer, which sets them and the status together; the
\* status changes there or in a SolveTicket, which sets SOLVED and nothing
\* else; every other operation changes at most one entity.
C6_AssignOrSolveChangesTicket ==
    [][/\ \A t \in TicketIds :
            /\ (\/ tickets'[t].rescuer_id # tickets[t].rescuer_id
                \/ tickets'[t].rescuer_name # tickets[t].rescuer_name)
                   => \E q \in DOMAIN req : Assigns(q, t)
            /\ tickets'[t].status # tickets[t].status =>
                   \/ \E q \in DOMAIN req : Assigns(q, t)
                   \/ /\ \E q \in DOMAIN req : Serves(q, "solve") /\ req'[q].id = t
                      /\ tickets'[t] = [tickets[t] EXCEPT !.status = "SOLVED"]
       /\ OneEntity]_vars

\* A SolveTicket was answered for an assigned ticket, which is SOLVED and
\* names its rescuer still.
C6_Witness ==
    \E q \in DOMAIN req :
        /\ req[q].op = "solve" /\ req[q].pc = "sent" /\ req[q].status = 200
        /\ req[q].id \in TicketIds
        /\ tickets[req[q].id].status = "SOLVED"
        /\ tickets[req[q].id].rescuer_id # NULL_ID
        /\ tickets[req[q].id].rescuer_name # NULL

\* ------------------------------------------------------------------ C7
\* C7 as claimed: a status poll for N that the store answers returns
\* DISPATCHED and X whenever a ticket with number N is DISPATCHED to X,
\* whatever other tickets there are.
C7_PollReturnsAssignment ==
    [][\A q \in DOMAIN req :
          (Serves(q, "status") /\ req'[q].status # 500) =>
            \A t \in TicketIds :
              (tickets[t].ticket_number = req'[q].ticket_number
                 /\ tickets[t].status = "DISPATCHED") =>
                /\ req'[q].status = 200
                /\ req'[q].body.status = "DISPATCHED"
                /\ req'[q].body.rescuer_name = tickets[t].rescuer_name]_vars

\* C7 amended: a status poll for N that the store answers returns the
\* status and rescuer_name of one ticket with number N; so it returns
\* DISPATCHED and X when the ticket DISPATCHED to X is the only ticket
\* with number N, whatever tickets with other numbers were created
\* earlier or later.
C7_PollReturnsOneOfNumber ==
    [][\A q \in DOMAIN req :
          (Serves(q, "status") /\ req'[q].status # 500) =>
            LET N == req'[q].ticket_number
                numbered == {t \in TicketIds : tickets[t].ticket_number = N}
            IN /\ numbered = {} => req'[q].status = 404
               /\ numbered # {} =>
                     /\ req'[q].status = 200
                     /\ \E t \in numbered :
                           /\ req'[q].body.status = tickets[t].status
                           /\ req'[q].body.rescuer_name = tickets[t].rescuer_name
               /\ \A t \in numbered :
                     (numbered = {t} /\ tickets[t].status = "DISPATCHED") =>
                        /\ req'[q].body.status = "DISPATCHED"
                        /\ req'[q].body.rescuer_name = tickets[t].rescuer_name]_vars

\* Of two tickets with different numbers, the later one is DISPATCHED and
\* a poll for its number was answered with DISPATCHED and its rescuer.
C7_Witness ==
    \E q \in DOMAIN req :
        /\ req[q].op = "status" /\ req[q].pc = "sent" /\ req[q].status = 200
        /\ Len(tickets) = 2
        /\ tickets[1].ticket_number # tickets[2].ticket_number
        /\ tickets[2].ticket_number = req[q].ticket_number
        /\ tickets[2].status = "DISPATCHED"
        /\ req[q].body.status = "DISPATCHED"
        /\ req[q].body.rescuer_name = tickets[2].rescuer_name
        /\ req[q].body.rescuer_name # NULL

\* ------------------------------------------------------------------ C8
\* C8: no step of a Login changes a ticket, only the last one changes a
\* rescuer, and a Login answered with success leaves the rescuer that
\* logged in (if the row is still there) available, whatever the status
\* was before.
C8_LoginForcesAvailable ==
    [][\A q \in DOMAIN req :
          /\ (Free(q) /\ req'[q] # req[q] /\ req'[q].op = "login")
                => (tickets' = tickets /\ rescuers' = rescuers)
          /\ StepOf(q, "login") => tickets' = tickets
          /\ (StepOf(q, "login") /\ Answers(q) /\ req'[q].status = 200) =>
                LET id == req[q].rescuer.id IN
                /\ id \in RescuerIds => rescuers'[id].status = "available"
                /\ \A i \in RescuerIds \ {id} : rescuers'[i] = rescuers[i]]_vars

\* A rescuer who was on-mission logged in: the response shows the row as
\* it was read, the row is available, and the ticket is DISPATCHED to the
\* rescuer still.
C8_Witness ==
    \E q \in DOMAIN req, t \in TicketIds :
        /\ req[q].op = "login" /\ req[q].pc = "sent" /\ req[q].status = 200
        /\ req[q].body.status = "on-mission"
        /\ req[q].body.id \in RescuerIds
        /\ rescuers[req[q].body.id].status = "available"
        /\ tickets[t].rescuer_id = req[q].body.id /\ tickets[t].status = "DISPATCHED"

\* ------------------------------------------------------------------ C9
\* C9: a SolveTicket reports no error but the store's; answered with
\* success it leaves the ticket (if there is one with that id) SOLVED,
\* whatever its status was, and changes nothing else; on a ticket that is
\* SOLVED already, so in the second of two calls in a row with no other
\* request between them, it changes nothing at all.
C9_SolveIdempotent ==
    [][\A q \in DOMAIN req :
          Serves(q, "solve") =>
            LET id == req'[q].id IN
            /\ req'[q].sent
            /\ rescuers' = rescuers /\ messages' = messages
            /\ \/ /\ req'[q].status = 200
                  /\ req'[q].body = [message |-> "Ticket marked as solved"]
                  /\ Len(tickets') = Len(tickets)
                  /\ \A t \in TicketIds :
                        tickets'[t] = IF t = id
                                      THEN [tickets[t] EXCEPT !.status = "SOLVED"]
                                      ELSE tickets[t]
                  /\ (id \in TicketIds /\ tickets[id].status = "SOLVED")
                        => tickets' = tickets
                  /\ (req'[q].nth >= 2 /\ Alone(q)) => tickets' = tickets
               \/ /\ req'[q].status = 500
                  /\ req'[q].body = [error |-> "err.message"]
                  /\ tickets' = tickets]_vars

\* The same SolveTicket was answered with success twice in a row, and the
\* ticket is SOLVED.
C9_Witness ==
    \E q \in DOMAIN req :
        /\ req[q].op = "solve" /\ req[q].pc = "sent" /\ req[q].status = 200
        /\ req[q].nth = 2
        /\ req[q].id \in TicketIds
        /\ tickets[req[q].id].status = "SOLVED"

\* ------------------------------------------------------------------ C10
\* C10: the chat of a ticket is returned in the order the messages were
\* sent, messages with equal timestamps included.
C10_ChatInSendOrder ==
    [][\A q \in DOMAIN req :
          (Serves(q, "chat") /\ req'[q].status = 200) =>
            LET rows == req'[q].body.rows IN
            /\ {rows[k].id : k \in DOMAIN rows} = chatRows(req'[q].ticket_number)
            /\ \A j, k \in DOMAIN rows : j < k => rows[j].id < rows[k].id]_vars

\* ------------------------------------------------------------------ C11
\* C11: a Logout answered with success leaves the rescuer (if there is one
\* with that id) off-duty, whatever the status was, on-mission and
\* responding with a DISPATCHED ticket included, and changes nothing else
\* of that row, no other rescuer and no ticket.
C11_LogoutForcesOffDuty ==
    [][\A q \in DOMAIN req :
          (Serves(q, "logout") /\ req'[q].status = 200) =>
            LET id == req'[q].rescuerId IN
            /\ tickets' = tickets
            /\ DOMAIN rescuers' = DOMAIN rescuers
            /\ \A i \in RescuerIds :
                  rescuers'[i] = IF i = id
                                 THEN [rescuers[i] EXCEPT !.status = "off-duty"]
                                 ELSE rescuers[i]]_vars

\* A rescuer logged out while a ticket is DISPATCHED to it: the rescuer is
\* off-duty and the ticket as it was.
C11_Witness ==
    \E q \in DOMAIN req, t \in TicketIds :
        /\ req[q].op = "logout" /\ req[q].pc = "sent" /\ req[q].status = 200
        /\ req[q].rescuerId \in RescuerIds
        /\ rescuers[req[q].rescuerId].status = "off-duty"
        /\ tickets[t].rescuer_id = req[q].rescuerId
        /\ tickets[t].status = "DISPATCHED"

\* ------------------------------------------------------------------ C12
\* C12: an UpdateRescuer answered with success writes name, badge_id,
\* callsign and phone of the rescuer named; profile_image becomes the
\* image supplied, and stays what it was when none is supplied; status,
\* location and password of the row, every other rescuer and every
\* ticket are unchanged.  An image stored is what the image request
\* returns.
C12_UpdateKeepsImage ==
    [][\A q \in DOMAIN req :
          /\ (Serves(q, "update") /\ req'[q].status = 200) =>
                LET r == req'[q] IN
                /\ tickets' = tickets
                /\ DOMAIN rescuers' = DOMAIN rescuers
                /\ \A i \in RescuerIds \ {r.id} : rescuers'[i] = rescuers[i]
                /\ r.id \in RescuerIds =>
                      LET old == rescuers[r.id]
                          new == rescuers'[r.id]
                      IN /\ new.name = r.name /\ new.badge_id = r.badge_id
                         /\ new.callsign = r.callsign /\ new.phone = r.phone
                         /\ new.profile_image = IF r.imageBuffer = NULL
                                                 THEN old.profile_image
                                                 ELSE r.imageBuffer
                         /\ new.status = old.status
                         /\ new.last_lat = old.last_lat /\ new.last_lon = old.last_lon
                         /\ new.password = old.password
          /\ (Serves(q, "image") /\ req'[q].status # 500
                 /\ req'[q].id \in RescuerIds
                 /\ rescuers[req'[q].id].profile_image # NULL) =>
                /\ req'[q].status = 200
                /\ req'[q].body.image = rescuers[req'[q].id].profile_image]_vars

\* A rescuer registered as Alex with an image, off-duty and with a
\* position stored, was renamed without an image: the image is there.
C12_Witness ==
    \E q \in DOMAIN req :
        /\ req[q].op = "update" /\ req[q].pc = "sent" /\ req[q].status = 200
        /\ req[q].imageBuffer = NULL
        /\ req[q].id \in RescuerIds
        /\ rescuers[req[q].id].name = "Bea" /\ req[q].name = "Bea"
        /\ rescuers[req[q].id].phone = "0918"
        /\ rescuers[req[q].id].profile_image = "img1"
        /\ rescuers[req[q].id].status = "off-duty"
        /\ rescuers[req[q].id].last_lat # NULL

\* ------------------------------------------------------------------ C13
\* C13: the status a ReportLocation writes is the one derived from the
\* rows its own read returned, whatever the tickets and the rescuer are
\* when it writes: no lock and no second read stand between a stale read
\* and the write.
C13_LocationWritesItsRead ==
    [][\A q \in DOMAIN req :
          (StepOf(q, "location") /\ Answers(q) /\ req'[q].status = 200) =>
            LET id == req[q].rescuerId
                read == IF req[q].missionResult = {} THEN "available" ELSE "responding"
            IN /\ req'[q].body.status = read
               /\ tickets' = tickets
               /\ id \in RescuerIds => rescuers'[id].status = read]_vars

\* Two ReportLocation calls for one rescuer were answered, one with
\* responding and one with available, and the rescuer is available while
\* a ticket is DISPATCHED to it: the call answered available read the
\* tickets before the assignment committed and wrote after it, and after
\* the call that read later.
C13_Witness ==
    \E q, p \in DOMAIN req, t \in TicketIds :
        /\ req[q].op = "location" /\ req[q].pc = "sent" /\ req[q].status = 200
        /\ req[p].op = "location" /\ req[p].pc = "sent" /\ req[p].status = 200
        /\ req[q].rescuerId = req[p].rescuerId
        /\ req[q].body.status = "available" /\ req[p].body.status = "responding"
        /\ req[q].rescuerId \in RescuerIds
        /\ rescuers[req[q].rescuerId].status = "available"
        /\ tickets[t].rescuer_id = req[q].rescuerId
        /\ tickets[t].status = "DISPATCHED"

\* An assignment was answered with success, its ticket is DISPATCHED and
\* its rescuer on-mission, while a ReportLocation for that rescuer has read
\* no mission and is about to write: by C13_LocationWritesItsRead the
\* write leaves the rescuer available.
StaleReadAfterAssign ==
    \E q, p \in DOMAIN req :
        /\ req[q].op = "location" /\ req[q].pc = "UPDATE"
        /\ req[q].missionResult = {}
        /\ req[p].op = "assign" /\ req[p].pc = "sent" /\ req[p].status = 200
        /\ req[p].rescuerId = req[q].rescuerId
        /\ req[p].rescuerId \in RescuerIds /\ req[p].ticketId \in TicketIds
        /\ rescuers[req[p].rescuerId].status = "on-mission"
        /\ tickets[req[p].ticketId].rescuer_id = req[p].rescuerId
        /\ tickets[req[p].ticketId].status = "DISPATCHED"

\* ------------------------------------------------------------------ C15
\* C15: every AssignRescuer request ends with a response: whichever
\* statement fails (acquiring the client, BEGIN, an update, COMMIT or the
\* ROLLBACK after a failure), the handler answers with an error and no
\* rejection leaves it.
C15_AssignAlwaysResponds ==
    [][\A q \in DOMAIN req :
          (Answers(q) /\ req'[q].op = "assign") =>
            /\ req'[q].sent
            /\ req'[q].status \in {200, 500}]_vars

\* ------------------------------------------------------------------ C16
\* C16: a SolveTicket changes no rescuer, no ticket but the one named and
\* of that one neither rescuer_id nor rescuer_name; and the status of a
\* rescuer that is on-mission or responding leaves these two values only
\* in a Logout, a Login or a ReportLocation for that rescuer.
C16_SolveLeavesRescuer ==
    [][/\ \A q \in DOMAIN req :
            Serves(q, "solve") =>
              /\ rescuers' = rescuers
              /\ Len(tickets') = Len(tickets)
              /\ \A t \in TicketIds :
                    /\ tickets'[t].rescuer_id = tickets[t].rescuer_id
                    /\ tickets'[t].rescuer_name = tickets[t].rescuer_name
                    /\ t # req'[q].id => tickets'[t] = tickets[t]
       /\ \A i \in RescuerIds \cap DOMAIN rescuers' :
            (/\ rescuers[i].status \in {"on-mission", "responding"}
             /\ rescuers'[i].status \notin {"on-mission", "responding"}) =>
               \E q \in DOMAIN req :
                  \/ Serves(q, "logout") /\ req'[q].rescuerId = i
                  \/ StepOf(q, "login") /\ req[q].rescuer.id = i
                  \/ StepOf(q, "location") /\ req[q].rescuerId = i]_vars

\* A ticket assigned to a rescuer was solved: the ticket is SOLVED and
\* names the rescuer, who is on-mission still.
C16_Witness ==
    \E q \in DOMAIN req :
        /\ req[q].op = "solve" /\ req[q].pc = "sent" /\ req[q].status = 200
        /\ req[q].id \in TicketIds
        /\ tickets[req[q].id].status = "SOLVED"
        /\ tickets[req[q].id].rescuer_id \in RescuerIds
        /\ rescuers[tickets[req[q].id].rescuer_id].status = "on-mission"

\* ------------------------------------------------------------------ C17
\* C17 as claimed: the status of an off-duty rescuer changes only in a
\* successful Login of that rescuer, which makes it available.
C17_OffDutyLeftOnlyByLogin ==
    [][\A i \in RescuerIds \cap DOMAIN rescuers' :
          (rescuers[i].status = "off-duty" /\ rescuers'[i].status # "off-duty") =>
            /\ rescuers'[i].status = "available"
            /\ \E q \in DOMAIN req :
                  /\ StepOf(q, "login") /\ Answers(q) /\ req'[q].status = 200
                  /\ req[q].rescuer.id = i]_vars

\* C17 amended: the status of an off-duty rescuer changes only in a
\* successful Login of that rescuer, which makes it available, in the
\* COMMIT of a successful AssignRescuer that names it, which makes it
\* on-mission, or in a successful ReportLocation for it, which makes it
\* responding or available; no other operation changes it.
C17_OffDutyLeftByLoginAssignLocation ==
    [][\A i \in RescuerIds \cap DOMAIN rescuers' :
          (rescuers[i].status = "off-duty" /\ rescuers'[i].status # "off-duty") =>
            \E q \in DOMAIN req :
               \/ /\ StepOf(q, "login") /\ Answers(q) /\ req'[q].status = 200
                  /\ req[q].rescuer.id = i
                  /\ rescuers'[i].status = "available"
               \/ /\ Commits(q) /\ req[q].rescuerId = i
                  /\ rescuers'[i].status = "on-mission"
               \/ /\ StepOf(q, "location") /\ Answers(q) /\ req'[q].status = 200
                  /\ req[q].rescuerId = i
                  /\ rescuers'[i].status \in {"responding", "available"}]_vars

\* A rescuer that was off-duty logged in: the response shows the row as
\* it was read, off-duty, and the row is available.
C17_Witness ==
    \E q \in DOMAIN req :
        /\ req[q].op = "login" /\ req[q].pc = "sent" /\ req[q].status = 200
        /\ req[q].body.status = "off-duty"
        /\ req[q].body.id \in RescuerIds
        /\ rescuers[req[q].body.id].status = "available"

\* ------------------------------------------------------------------ C18
\* C18: a DeleteRescuer answered with success removes the row of that id
\* and nothing else: every other rescuer and every ticket, the tickets
\* that name the rescuer included, are as before.
C18_DeleteDoesNotCascade ==
    [][\A q \in DOMAIN req :
          Serves(q, "delete") =>
            /\ tickets' = tickets
            /\ req'[q].status = 200 =>
                  /\ DOMAIN rescuers' = RescuerIds \ {req'[q].id}
                  /\ \A i \in DOMAIN rescuers' : rescuers'[i] = rescuers[i]
            /\ req'[q].status # 200 => rescuers' = rescuers]_vars

\* A rescuer was deleted and a ticket is DISPATCHED to its id and name
\* still.
C18_Witness ==
    \E q \in DOMAIN req, t \in TicketIds :
        /\ req[q].op = "delete" /\ req[q].pc = "sent" /\ req[q].status = 200
        /\ req[q].id \notin RescuerIds
        /\ req[q].id <= rescuers_id_seq
        /\ tickets[t].rescuer_id = req[q].id
        /\ tickets[t].rescuer_name # NULL
        /\ tickets[t].status = "DISPATCHED"

\* ------------------------------------------------------------------ C19
\* C19: a Login with a badge_id that no rescuer has, and a Login with the
\* badge_id of a rescuer and a password that is not that rescuer's, end at
\* once with the same response, 401 and "Auth Failed" (or with the store's
\* error), and change no rescuer and no ticket.
C19_FailedLoginChangesNothing ==
    [][\A q \in DOMAIN req :
          (Free(q) /\ req'[q] # req[q] /\ req'[q].op = "login") =>
            LET known == {i \in RescuerIds : rescuers[i].badge_id = req'[q].badge_id}
                wrong == \A i \in known :
                            rescuers[i].password # bcrypt_hash(req'[q].password)
            IN /\ wrong =>
                    /\ req'[q].pc = "sent" /\ req'[q].sent
                    /\ \/ /\ req'[q].status = 401
                          /\ req'[q].body = [error |-> "Auth Failed"]
                       \/ /\ req'[q].status = 500
                          /\ req'[q].body = [error |-> "Server Error"]
               /\ (req'[q].pc = "sent" /\ req'[q].status = 401) =>
                    /\ wrong
                    /\ req'[q].body = [error |-> "Auth Failed"]
               /\ rescuers' = rescuers /\ tickets' = tickets]_vars

\* A Login with the badge_id of a rescuer and another password was
\* answered 401, and the rescuer is off-duty still.
C19_Witness ==
    \E q \in DOMAIN req, i \in RescuerIds :
        /\ req[q].op = "login" /\ req[q].pc = "sent" /\ req[q].status = 401
        /\ req[q].body = [error |-> "Auth Failed"]
        /\ rescuers[i].badge_id = req[q].badge_id
        /\ rescuers[i].password # bcrypt_hash(req[q].password)
        /\ rescuers[i].status = "off-duty"

\* One of the two updates of the in-flight assignment r was rolled back
\* while the other one is applied.
Half(r) ==
    \/ r.ut = "undone" /\ r.ur \in {"pending", "durable"}
    \/ r.ur = "undone" /\ r.ut \in {"pending", "durable"}

\* The step is one of the assignment that caller q has in flight on the
\* shared connection.
SharedStep(q) == req[q].op = "assign" /\ ~Free(q) /\ req'[q] # req[q]

\* The update whose fate was x before the answer is not applied after an
\* answer with an error: it was not run, it was rolled back, or it is in a
\* transaction that this step rolled back or that a ROLLBACK handed to the
\* connection will end.
NotApplied(x) ==
    \/ x \in {"todo", "undone"}
    \/ x = "pending" /\ (~db'.txn \/ db'.rollbacks > 0)

\* C14: with two assignments in flight on the one connection, the two
\* updates of a request are committed together or rolled back together (an
\* answer of success commits both of them in one transaction), no rollback
\* removes one half of the updates of a request and leaves the other half,
\* and a request answered with an error leaves none of its updates applied.
C14_SharedAssignAtomic ==
    [][\A q \in DOMAIN req :
          SharedStep(q) =>
            /\ ~Free(q)' => ~Half(req'[q])
            /\ (Answers(q) /\ req'[q].sent /\ req'[q].status = 200) =>
                 req[q].ut = "pending" /\ req[q].ur = "pending"
            /\ (Answers(q) /\ req'[q].sent /\ req'[q].status = 500) =>
                 NotApplied(req[q].ut) /\ NotApplied(req[q].ur)]_vars

\* C20: in the SQLite build an assignment is answered with success only by
\* the COMMIT that makes its two updates durable: when the answer goes out,
\* neither update has been rolled back.
C20_SuccessAfterCommit ==
    [][\A q \in DOMAIN req :
          (SharedStep(q) /\ Answers(q) /\ req'[q].sent /\ req'[q].status = 200) =>
            /\ db.txn /\ ~db'.txn
            /\ req[q].ut \in {"pending", "durable"}
            /\ req[q].ur \in {"pending", "durable"}]_vars

\* C21: when no request is in progress, every rescuer whose status is
\* on-mission or responding is the rescuer of at least one ticket.
C21_MissionHasTicket ==
    (\A q \in DOMAIN req : Free(q)) =>
        \A i \in RescuerIds :
            rescuers[i].status \in {"on-mission", "responding"} =>
                \E t \in TicketIds : tickets[t].rescuer_id = i

\* The handler of caller q holds a client of the pool.
Holding(q) == req[q].op = "assign" /\ ~Free(q)

\* C22: every client that an assignment takes from the pool is given back
\* exactly once, in the step that ends the request and that has run COMMIT
\* or ROLLBACK, on the commit path and on every failure path; the clients
\* checked out are those of the assignments in progress, so that the pool
\* is full again whenever no assignment is in progress.
C22_ClientReleasedOnce ==
    [][/\ pool' = Cardinality({q \in DOMAIN req :
                                 req'[q].op = "assign" /\ req'[q].pc \notin {"idle", "sent"}})
       /\ pool' < PoolMax
       /\ \A q \in DOMAIN req :
             (Holding(q) /\ req'[q].pc = "sent") =>
                 /\ pool' = pool - 1
                 /\ req[q].pc \in {"COMMIT", "ROLLBACK"}
       /\ pool' < pool => \E q \in DOMAIN req : Holding(q) /\ req'[q].pc = "sent"]_vars

\* One assignment was answered with success and another one with an error,
\* and every client is back in the pool.
C22_Witness ==
    /\ pool = 0
    /\ \E p, q \in DOMAIN req :
          /\ req[p].op = "assign" /\ req[p].pc = "sent" /\ req[p].sent
          /\ req[p].status = 200
          /\ req[q].op = "assign" /\ req[q].pc = "sent" /\ req[q].sent
          /\ req[q].status = 500

====
